---- MODULE Spec2Model ----
(***************************************************************************)
(* A model of codegen/generate.py: the OpenAPI document held as a heap of  *)
(* Python dicts (nodes with identity, so that the aliasing created by the  *)
(* shallow merge of expand_ref is visible), the reference resolver, the    *)
(* schema expander, the example synthesizer, the literal serializer and    *)
(* the loops of process_paths.                                             *)
(*                                                                         *)
(* Strings are sequences of one-character strings.  A dict is a function   *)
(* from the keys it holds to their values.                                 *)
(***************************************************************************)
EXTENDS Integers, Sequences, FiniteSets, TLC

\* ------------------------------------------------------------------ bounds
\* Pieces a generated description is made of.
MaxDescPieces == 2
\* Calls the function-level harness makes on one document.
MaxCalls == 3
\* Nested calls of expand before Python's RecursionError (the interpreter's
\* recursion limit, scaled to the documents of the model, none of which
\* nests schemas this deep).
RecursionLimit == 8

\* ----------------------------------------------------------------- strings
PRIMITIVE_TYPES == {"integer", "number", "string", "boolean"}

is_primitive_type(t) == t \in PRIMITIVE_TYPES

UpperChars == <<"A","B","C","D","E","F","G","H","I","J","K","L","M",
                "N","O","P","Q","R","S","T","U","V","W","X","Y","Z">>
LowerChars == <<"a","b","c","d","e","f","g","h","i","j","k","l","m",
                "n","o","p","q","r","s","t","u","v","w","x","y","z">>

\* str.lower() / str.upper(), one character
LowerChar(c) ==
    IF \E i \in 1..26 : UpperChars[i] = c
    THEN LowerChars[CHOOSE i \in 1..26 : UpperChars[i] = c] ELSE c
UpperChar(c) ==
    IF \E i \in 1..26 : LowerChars[i] = c
    THEN UpperChars[CHOOSE i \in 1..26 : LowerChars[i] = c] ELSE c

lower(s) == [i \in 1..Len(s) |-> LowerChar(s[i])]
upper(s) == [i \in 1..Len(s) |-> UpperChar(s[i])]

MatchAt(s, i, pat) ==
    /\ i + Len(pat) - 1 <= Len(s)
    /\ SubSeq(s, i, i + Len(pat) - 1) = pat

RECURSIVE ReplaceFrom(_, _, _, _)
ReplaceFrom(s, i, old, new) ==
    IF i > Len(s) THEN <<>>
    ELSE IF MatchAt(s, i, old)
         THEN new \o ReplaceFrom(s, i + Len(old), old, new)
         ELSE <<s[i]>> \o ReplaceFrom(s, i + 1, old, new)

\* str.replace(old, new), old not empty: the occurrences left to right,
\* not overlapping
replace(s, old, new) == ReplaceFrom(s, 1, old, new)

Whitespace == {" ", "\n"}

RECURSIVE lstrip(_)
lstrip(s) ==
    IF s # <<>> /\ Head(s) \in Whitespace THEN lstrip(Tail(s)) ELSE s

RECURSIVE rstrip(_)
rstrip(s) ==
    IF s # <<>> /\ s[Len(s)] \in Whitespace
    THEN rstrip(SubSeq(s, 1, Len(s) - 1)) ELSE s

\* str.strip()
strip(s) == rstrip(lstrip(s))

\* TAG_RE.sub('', s) for TAG_RE = (<!--.*?-->|<[^>]*>).  The alphabet of
\* the model has no "!", so only the second alternative can match: a "<",
\* then everything up to the first ">" after it.
RECURSIVE StripFrom(_, _)
StripFrom(s, i) ==
    IF i > Len(s) THEN <<>>
    ELSE IF s[i] = "<" /\ \E j \in (i + 1)..Len(s) : s[j] = ">"
         THEN LET j == CHOOSE j \in (i + 1)..Len(s) :
                           /\ s[j] = ">"
                           /\ \A k \in (i + 1)..(j - 1) : s[k] # ">"
              IN  StripFrom(s, j + 1)
         ELSE <<s[i]>> \o StripFrom(s, i + 1)

striphtml(s) == StripFrom(s, 1)

BR == <<"<", "b", "r", ">">>
LINEBREAK == <<"\n", "-", "-", " ">>

cleanstring_multiline(s) ==
    LET s1 == strip(s)
        s2 == replace(s1, <<"\n">>, LINEBREAK)
        s3 == replace(s2, BR \o BR, LINEBREAK)
        s4 == replace(s3, BR \o <<" ">>, LINEBREAK)
        s5 == replace(s4, BR, LINEBREAK)
    IN  striphtml(s5)

\* split(sep), sep one character
RECURSIVE SplitFrom(_, _, _, _)
SplitFrom(s, i, sep, cur) ==
    IF i > Len(s) THEN <<cur>>
    ELSE IF s[i] = sep THEN <<cur>> \o SplitFrom(s, i + 1, sep, <<>>)
         ELSE SplitFrom(s, i + 1, sep, Append(cur, s[i]))

split(s, sep) == SplitFrom(s, 1, sep, <<>>)

\* ------------------------------------------------------------ dicts, heap
\* An example value (a JSON value): k is its Python type, s the text of a
\* scalar, keys and items the keys and values of a dict (in insertion
\* order), items alone the elements of a list.
NoExample == [k |-> "none", s |-> <<>>, keys |-> <<>>, items |-> <<>>]
ExStr(s) == [k |-> "str", s |-> s, keys |-> <<>>, items |-> <<>>]
ExBool(s) == [k |-> "bool", s |-> s, keys |-> <<>>, items |-> <<>>]
ExInt(s) == [k |-> "int", s |-> s, keys |-> <<>>, items |-> <<>>]
ExFloat(s) == [k |-> "float", s |-> s, keys |-> <<>>, items |-> <<>>]
ExList(items) == [k |-> "list", s |-> <<>>, keys |-> <<>>, items |-> items]
ExDict(keys, items) == [k |-> "dict", s |-> <<>>, keys |-> keys, items |-> items]

\* "properties": the mapping id -> schema of the document (form "dict"),
\* or the list expand_object makes of it (form "list").
NoProps == [form |-> "none", ids |-> <<>>, nodes |-> <<>>]
PropsDict(ids, nodes) == [form |-> "dict", ids |-> ids, nodes |-> nodes]
PropsList(nodes) == [form |-> "list", ids |-> <<>>, nodes |-> nodes]

\* The value d.get(k, ...) gives for an absent key, by the key's type.
Default(k) ==
    CASE k \in {"$ref", "id", "description", "name", "code", "oneOf", "allOf",
               "content", "method", "path", "operationId", "security",
               "parameters", "requestBodyLuaExample"} -> <<>>
      [] k \in {"type", "in"} -> ""
      [] k \in {"items", "schema", "requestBody"} -> 0
      [] k \in {"properties", "responses"} -> NoProps
      [] k = "example" -> NoExample
      [] OTHER -> FALSE

EmptyDict == [k \in {} |-> FALSE]

Has(d, k) == k \in DOMAIN d
\* d[k] where the code has checked the key, d.get(k, default) elsewhere
Get(d, k) == IF k \in DOMAIN d THEN d[k] ELSE Default(k)
Put(d, k, x) == [j \in DOMAIN d \cup {k} |-> IF j = k THEN x ELSE d[j]]
Del(d, k) == [j \in DOMAIN d \ {k} |-> d[j]]

\* a dict literal, from a set of <<key, value>> pairs
RECURSIVE Dict(_)
Dict(pairs) ==
    IF pairs = {} THEN EmptyDict
    ELSE LET p == CHOOSE p \in pairs : TRUE
         IN  Put(Dict(pairs \ {p}), p[1], p[2])

\* The state the functions share: n the heap (address -> dict), comps the
\* entries of api["components"] ([cat, name, addr]), st "ok" or the
\* exception or exit that ended the run.
Fail(api, why) == [api EXCEPT !.st = why]
Store(api, v, d) == [api EXCEPT !.n[v] = d]
SetKey(api, v, k, x) == Store(api, v, Put(api.n[v], k, x))

PREFIX == <<"#", "/", "c", "o", "m", "p", "o", "n", "e", "n", "t", "s", "/">>

\* lookup_component, lines 98-102: the address looked up (0: no such
\* component, -1: the pointer has no second part)
ComponentAt(splits, api) ==
    IF Len(splits) < 2 THEN -1
    ELSE IF \A c \in api.comps : c.cat # splits[1] \/ c.name # splits[2] THEN 0
    ELSE (CHOOSE c \in api.comps : c.cat = splits[1] /\ c.name = splits[2]).addr

ComponentAddr(ref, api) == ComponentAt(split(replace(ref, PREFIX, <<>>), "/"), api)

ComponentId(ref) ==
    lower(replace(split(replace(ref, PREFIX, <<>>), "/")[2], <<"-">>, <<"_">>))

\* lookup_component: the component gets its "id", in place
LookedUp(a, ref, api) ==
    IF a = -1 THEN Fail(api, "IndexError")
    ELSE IF a = 0 THEN Fail(api, "KeyError")
    ELSE SetKey(api, a, "id", ComponentId(ref))

lookup_component(ref, api) == LookedUp(ComponentAddr(ref, api), ref, api)

\* for k in component: data[k] = component[k]
Merge(data, component) ==
    [k \in DOMAIN data \cup DOMAIN component |->
        IF k \in DOMAIN component THEN component[k] ELSE data[k]]

\* lines 109-111, a1 the document lookup_component left
Resolved(data, ref, a1) ==
    IF a1.st # "ok" THEN a1
    ELSE Store(a1, data, Del(Merge(a1.n[data], a1.n[ComponentAddr(ref, a1)]), "$ref"))

\* lines 109-110 without line 111: the pointer stays on the node
Unresolved(data, ref, a1) ==
    IF a1.st # "ok" THEN a1
    ELSE Store(a1, data, Merge(a1.n[data], a1.n[ComponentAddr(ref, a1)]))

\* expand_ref without its line 111
expand_ref_keeping(data, api) ==
    IF api.st # "ok" \/ ~Has(api.n[data], "$ref") THEN api
    ELSE Unresolved(data, api.n[data]["$ref"],
                    lookup_component(api.n[data]["$ref"], api))

expand_ref(data, api) ==
    IF api.st # "ok" \/ ~Has(api.n[data], "$ref") THEN api
    ELSE Resolved(data, api.n[data]["$ref"],
                  lookup_component(api.n[data]["$ref"], api))

\* ---------------------------------------------------------------- expand
\* expand and the functions it calls recurse on the heap; depth counts
\* the calls of expand that have not returned.  Python ends a recursion
\* deeper than its recursion limit with a RecursionError.
RECURSIVE expand_in(_, _, _)
RECURSIVE Classify(_, _, _)
RECURSIVE expand_each(_, _, _, _)
RECURSIVE expand_properties(_, _, _, _)

\* for o in nodes: expand(o, api)
expand_each(nodes, i, api, depth) ==
    IF api.st # "ok" \/ i > Len(nodes) THEN api
    ELSE expand_each(nodes, i + 1, expand_in(nodes[i], api, depth), depth)

\* lines 129-131
DescribeProperty(prop, api) ==
    IF api.st # "ok" THEN api
    ELSE SetKey(api, prop, "description",
                cleanstring_multiline(Get(api.n[prop], "description")))

expand_properties(nodes, i, api, depth) ==
    IF api.st # "ok" \/ i > Len(nodes) THEN api
    ELSE expand_properties(nodes, i + 1,
             DescribeProperty(nodes[i], expand_in(nodes[i], api, depth)), depth)

\* lines 122-127: prop["id"] = prop_id for each property of the mapping
RECURSIVE NameProperties(_, _, _)
NameProperties(props, i, api) ==
    IF i > Len(props.nodes) THEN api
    ELSE NameProperties(props, i + 1, SetKey(api, props.nodes[i], "id", props.ids[i]))

\* expand_array without the call of expand on the item schema
expand_array_flat(arr, api, depth) == api

expand_array_in(arr, api, depth) ==
    IF Has(api.n[arr], "items")
    THEN expand_in(Get(api.n[arr], "items"), api, depth)
    ELSE api

\* lines 122-127
ListProperties(obj, properties, api) ==
    IF properties.form = "dict"
    THEN NameProperties(properties, 1,
             SetKey(api, obj, "properties", PropsList(properties.nodes)))
    ELSE api

expand_object_in(obj, api, depth) ==
    IF ~Has(api.n[obj], "properties") THEN api
    ELSE expand_properties(Get(api.n[obj], "properties").nodes, 1,
             ListProperties(obj, Get(api.n[obj], "properties"), api), depth)

\* lines 148-149
MarkProperties(v, a1) ==
    IF a1.st = "ok" /\ Get(a1.n[v], "properties").nodes # <<>>
    THEN SetKey(a1, v, "hasproperties", TRUE)
    ELSE a1

\* lines 145-149
ExpandObjectCase(v, api, depth) ==
    MarkProperties(v, expand_object_in(v, SetKey(api, v, "isobject", TRUE), depth))

\* lines 135-154, a1 the document expand_ref left
Classify(v, a1, deeper) ==
    IF a1.st # "ok" THEN a1
    ELSE IF Has(a1.n[v], "oneOf")
         THEN expand_each(Get(a1.n[v], "oneOf"), 1,
                  SetKey(SetKey(a1, v, "type", "oneof"), v, "isoneof", TRUE), deeper)
    ELSE IF Has(a1.n[v], "allOf")
         THEN expand_each(Get(a1.n[v], "allOf"), 1,
                  SetKey(SetKey(a1, v, "type", "allof"), v, "isallof", TRUE), deeper)
    ELSE IF ~Has(a1.n[v], "type") THEN Fail(a1, "KeyError")
    ELSE IF Get(a1.n[v], "type") = "object" THEN ExpandObjectCase(v, a1, deeper)
    ELSE IF Get(a1.n[v], "type") = "array"
         THEN expand_array_in(v, SetKey(a1, v, "isarray", TRUE), deeper)
    ELSE IF ~is_primitive_type(Get(a1.n[v], "type"))
         \* error is not defined in the script: the call raises
         THEN Fail(a1, "NameError")
    ELSE a1

expand_in(v, api, depth) ==
    IF api.st # "ok" THEN api
    ELSE IF depth > RecursionLimit THEN Fail(api, "RecursionError")
    ELSE Classify(v, expand_ref(v, api), depth + 1)

expand(v, api) == expand_in(v, api, 1)
expand_array(arr, api) == expand_array_in(arr, api, 1)
expand_object(obj, api) == expand_object_in(obj, api, 1)

\* ------------------------------------------------------ property_to_example
\* example[key] = value on a dict in insertion order
DictPut(d, key, value) ==
    IF \E i \in 1..Len(d.keys) : d.keys[i] = key
    THEN LET i == CHOOSE i \in 1..Len(d.keys) : d.keys[i] = key
         IN  [d EXCEPT !.items[i] = value]
    ELSE ExDict(Append(d.keys, key), Append(d.items, value))

\* The result of property_to_example: st "ok" and the example, or how the
\* call ended.  active holds the nodes of the calls that have not returned:
\* the function does not write, so a call on one of them repeats.
ExOk(e) == [st |-> "ok", ex |-> e]
ExFail(why) == [st |-> why, ex |-> NoExample]

RECURSIVE example_in(_, _, _)
RECURSIVE example_properties(_, _, _, _, _)

\* lines 175-180: i-th property on, acc the dict so far
example_properties(props, i, acc, api, active) ==
    IF i > Len(props.nodes) THEN ExOk(acc)
    ELSE LET p == props.nodes[i]
             r == example_in(p, api, active)
         IN  IF r.st # "ok" THEN r
             ELSE IF props.form = "list" /\ ~Has(api.n[p], "id") THEN ExFail("KeyError")
             ELSE example_properties(props, i + 1,
                      DictPut(acc, IF props.form = "list" THEN Get(api.n[p], "id")
                                                           ELSE props.ids[i], r.ex),
                      api, active)

ExampleOr(prop, api, default) ==
    ExOk(IF Has(api.n[prop], "example") THEN Get(api.n[prop], "example") ELSE default)

example_in(prop, api, active) ==
    LET d == api.n[prop]
        act == active \cup {prop}
    IN  IF prop \in active THEN ExFail("RecursionError")
        ELSE IF ~Has(d, "type") THEN ExFail("KeyError")
        ELSE CASE Get(d, "type") = "string" ->
                    ExampleOr(prop, api, ExStr(Get(d, "description")))
               [] Get(d, "type") = "boolean" ->
                    ExampleOr(prop, api, ExBool(<<"t", "r", "u", "e">>))
               [] Get(d, "type") = "number" ->
                    ExampleOr(prop, api, ExFloat(<<"1", "2", "3", ".", "4", "5", "6">>))
               [] Get(d, "type") = "integer" ->
                    ExampleOr(prop, api, ExInt(<<"1", "2", "3">>))
               [] Get(d, "type") = "oneof" ->
                    IF ~Has(d, "oneOf") THEN ExFail("KeyError")
                    ELSE IF Get(d, "oneOf") = <<>> THEN ExFail("IndexError")
                    ELSE example_in(Get(d, "oneOf")[1], api, act)
               [] Get(d, "type") = "array" ->
                    IF ~Has(d, "items") THEN ExFail("KeyError")
                    ELSE LET r == example_in(Get(d, "items"), api, act)
                         IN  IF r.st # "ok" THEN r ELSE ExOk(ExList(<<r.ex>>))
               [] Get(d, "type") = "object" ->
                    example_properties(Get(d, "properties"), 1,
                                       ExDict(<<>>, <<>>), api, act)
               [] OTHER -> ExFail("exit4")

property_to_example(prop, api) == example_in(prop, api, {})

\* -------------------------------------------------------------------- tolua
is_primitive_python_type(o) == o.k \in {"str", "bool", "int", "float", "none"}

python_to_lua_type(o) ==
    CASE o.k = "str" -> <<"\"">> \o o.s \o <<"\"">>
      [] o.k \in {"bool", "int", "float"} -> o.s
      [] OTHER -> <<"n", "i", "l">>

RECURSIVE tolua(_, _, _)
RECURSIVE ToluaList(_, _, _)
RECURSIVE ToluaDict(_, _, _)

ToluaList(o, i, prefix) ==
    IF i > Len(o.items) THEN <<>>
    ELSE tolua(o.items[i], prefix \o <<" ", " ">>, <<",">>) \o ToluaList(o, i + 1, prefix)

ToluaDict(o, i, prefix) ==
    IF i > Len(o.keys) THEN <<>>
    ELSE (IF is_primitive_python_type(o.items[i])
          THEN prefix \o <<" ", " ">> \o o.keys[i] \o <<" ", "=", " ">>
                 \o tolua(o.items[i], <<>>, <<",">>)
          ELSE prefix \o <<" ", " ">> \o o.keys[i] \o <<" ", "=", " ", "\n">>
                 \o tolua(o.items[i], prefix \o <<" ", " ">>, <<",">>))
         \o ToluaDict(o, i + 1, prefix)

tolua(o, prefix, suffix) ==
    IF o.k = "list"
    THEN prefix \o <<"{", "\n">> \o ToluaList(o, 1, prefix)
           \o prefix \o <<"}">> \o suffix \o <<"\n">>
    ELSE IF o.k = "dict"
    THEN prefix \o <<"{", "\n">> \o ToluaDict(o, 1, prefix)
           \o prefix \o <<"}">> \o suffix \o <<"\n">>
    ELSE prefix \o python_to_lua_type(o) \o suffix \o <<"\n">>

\* ------------------------------------------------------------- load_api
\* json.load: a document is a tree of terms, [d, groups]: d the dict of
\* the node's scalar keys, groups its keys that hold nodes ([key, ids,
\* kids]: "properties", "responses" and "content" with an id per kid,
\* "oneOf", "allOf" and "parameters" lists, "items", "schema" and
\* "requestBody" one kid).  Loading gives every node an address of its
\* own: no two keys of a loaded document share a node.
Term(pairs, groups) == [d |-> Dict(pairs), groups |-> groups]
Group(key, ids, kids) == [key |-> key, ids |-> ids, kids |-> kids]

GroupValue(g, addrs) ==
    CASE g.key \in {"properties", "responses"} -> PropsDict(g.ids, addrs)
      [] g.key = "content" -> [i \in 1..Len(addrs) |-> [media |-> g.ids[i], schema |-> addrs[i]]]
      [] g.key \in {"items", "schema", "requestBody"} -> addrs[1]
      [] OTHER -> addrs

RECURSIVE LoadTerm(_, _)
RECURSIVE LoadKids(_, _, _, _)
RECURSIVE LoadGroups(_, _, _, _)

\* the heap n with the term loaded, and the term's address
LoadTerm(t, n) ==
    [n |-> LoadGroups(t.groups, 1, Append(n, t.d), Len(n) + 1), addr |-> Len(n) + 1]

LoadKids(kids, i, n, addrs) ==
    IF i > Len(kids) THEN [n |-> n, addrs |-> addrs]
    ELSE LET r == LoadTerm(kids[i], n)
         IN  LoadKids(kids, i + 1, r.n, Append(addrs, r.addr))

LoadGroups(groups, i, n, addr) ==
    IF i > Len(groups) THEN n
    ELSE LET r == LoadKids(groups[i].kids, 1, n, <<>>)
         IN  LoadGroups(groups, i + 1,
                 [r.n EXCEPT ![addr] = Put(@, groups[i].key, GroupValue(groups[i], r.addrs))],
                 addr)

\* api["components"]: components is a sequence of [cat, name, body]
RECURSIVE LoadComponents(_, _, _)
LoadComponents(components, i, api) ==
    IF i > Len(components) THEN api
    ELSE LET r == LoadTerm(components[i].body, api.n)
         IN  LoadComponents(components, i + 1,
                 [api EXCEPT !.n = r.n,
                             !.comps = @ \cup {[cat |-> components[i].cat,
                                                name |-> components[i].name,
                                                addr |-> r.addr]}])

\* api["paths"] as loaded: pathterms is a sequence of [path, methods], methods
\* a sequence of [method, data], data the operation's term.  The result is
\* the mapping with an address for each operation.
RECURSIVE LoadMethods(_, _, _, _)
LoadMethods(methods, i, n, acc) ==
    IF i > Len(methods) THEN [n |-> n, methods |-> acc]
    ELSE LET r == LoadTerm(methods[i].data, n)
         IN  LoadMethods(methods, i + 1, r.n,
                 Append(acc, [method |-> methods[i].method, data |-> r.addr]))

RECURSIVE LoadPaths(_, _, _, _)
LoadPaths(pathterms, i, n, acc) ==
    IF i > Len(pathterms) THEN [n |-> n, paths |-> acc]
    ELSE LET r == LoadMethods(pathterms[i].methods, 1, n, <<>>)
         IN  LoadPaths(pathterms, i + 1, r.n,
                 Append(acc, [path |-> pathterms[i].path, methods |-> r.methods]))

\* load_api: document is [components, sec, paths, roots]; sec is
\* components.securitySchemes (scheme -> its description); roots are
\* schemas of the document the function-level harness calls the functions on.
load_api(document) ==
    LET a0 == LoadComponents(document.components, 1,
                  [n |-> <<>>, comps |-> {}, st |-> "ok", sec |-> document.sec,
                   paths |-> <<>>])
        p == LoadPaths(document.paths, 1, a0.n, <<>>)
        r == LoadKids(document.roots, 1, p.n, <<>>)
    IN  [api |-> [a0 EXCEPT !.n = r.n], paths |-> p.paths, roots |-> r.addrs]

\* ----------------------------------------------------------- process_paths
\* line 204 with the second marker forgotten
SkippedAdminOnly(data) == Get(data, "x-admin")

\* line 204
Skipped(data) == Get(data, "x-admin") \/ Get(data, "x-server")

\* lines 201-211, the methods of one path from the i-th on
RECURSIVE FlattenMethods(_, _, _, _)
FlattenMethods(path, methods, i, api) ==
    IF api.st # "ok" \/ i > Len(methods) THEN api
    ELSE LET v == methods[i].data
             data == api.n[v]
         IN  IF Skipped(data)
             THEN FlattenMethods(path, methods, i + 1, api)
             ELSE IF ~Has(data, "description") \/ ~Has(data, "operationId")
             THEN Fail(api, "KeyError")
             ELSE FlattenMethods(path, methods, i + 1,
                      [Store(api, v,
                           Put(Put(Put(Put(data,
                               "method", upper(methods[i].method)),
                               "path", path),
                               "description", cleanstring_multiline(data["description"])),
                               "operationId", replace(data["operationId"], <<"-">>, <<"_">>)))
                       EXCEPT !.paths = Append(@, v)])

RECURSIVE FlattenPaths(_, _, _)
FlattenPaths(paths, i, api) ==
    IF api.st # "ok" \/ i > Len(paths) THEN api
    ELSE FlattenPaths(paths, i + 1,
             FlattenMethods(paths[i].path, paths[i].methods, 1, api))

\* lines 217-228: the scheme_id of a requirement ("": none of the four)
SchemeId(scheme) ==
    IF Has(scheme, "XsollaLoginUserJWT") THEN "XsollaLoginUserJWT"
    ELSE IF Has(scheme, "basicAuth") THEN "basicAuth"
    ELSE IF Has(scheme, "AuthForCart") THEN "AuthForCart"
    ELSE IF Has(scheme, "basicMerchantAuth") THEN "basicMerchantAuth"
    ELSE ""

\* lines 216-233: the list security, or the way the loop ended
RECURSIVE ConvertSecurity(_, _, _, _)
ConvertSecurity(schemes, i, api, security) ==
    IF i > Len(schemes) THEN [st |-> "ok", security |-> security]
    ELSE LET scheme_id == SchemeId(schemes[i])
         IN  IF scheme_id = "" THEN [st |-> "exit1", security |-> security]
             ELSE IF scheme_id \notin DOMAIN api.sec
             THEN [st |-> "KeyError", security |-> security]
             ELSE ConvertSecurity(schemes, i + 1, api,
                      Append(security,
                          Put(Put(Put(EmptyDict, scheme_id, TRUE), "scheme", scheme_id),
                              "description", cleanstring_multiline(api.sec[scheme_id]))))

\* lines 215-234, one operation
SecurityOf(v, api) ==
    LET r == ConvertSecurity(Get(api.n[v], "security"), 1, api, <<>>)
    IN  IF r.st # "ok" THEN Fail(api, r.st)
        ELSE SetKey(api, v, "security", r.security)

\* lines 240-244
RECURSIVE ConvertResponses(_, _, _)
ConvertResponses(responses, i, api) ==
    IF api.st # "ok" \/ i > Len(responses.nodes) THEN api
    ELSE ConvertResponses(responses, i + 1,
             expand_ref(responses.nodes[i],
                 SetKey(api, responses.nodes[i], "code", responses.ids[i])))

\* lines 238-244, one operation
ResponsesOf(v, api) ==
    IF ~Has(api.n[v], "responses") THEN Fail(api, "KeyError")
    ELSE LET responses == api.n[v]["responses"]
         IN  ConvertResponses(responses, 1,
                 SetKey(api, v, "responses", PropsList(responses.nodes)))

\* lines 249-253
ExpandParameter(parameter, api) ==
    LET a1 == expand_ref(parameter, api)
    IN  IF a1.st # "ok" THEN a1
        ELSE IF ~Has(a1.n[parameter], "in") \/ ~Has(a1.n[parameter], "name")
        THEN Fail(a1, "KeyError")
        ELSE Store(a1, parameter,
                 Put(Put(Put(a1.n[parameter],
                     "inpath", a1.n[parameter]["in"] = "path"),
                     "inquery", a1.n[parameter]["in"] = "query"),
                     "name", replace(replace(a1.n[parameter]["name"],
                                             <<"[", "]">>, <<>>), <<"-">>, <<"_">>)))

RECURSIVE ExpandParameters(_, _, _)
ExpandParameters(parameters, i, api) ==
    IF api.st # "ok" \/ i > Len(parameters) THEN api
    ELSE ExpandParameters(parameters, i + 1, ExpandParameter(parameters[i], api))

\* lines 248-253, one operation
ParametersOf(v, api) ==
    IF ~Has(api.n[v], "parameters") THEN Fail(api, "KeyError")
    ELSE ExpandParameters(api.n[v]["parameters"], 1, api)

JSON == "application/json"

\* data["requestBody"]["content"]["application/json"]["schema"]
JsonSchema(content) ==
    (CHOOSE c \in {content[i] : i \in 1..Len(content)} : c.media = JSON).schema

\* lines 268-269, r what property_to_example returned
Exemplified(v, schema, api, r) ==
    IF r.st # "ok" THEN Fail(api, r.st)
    ELSE SetKey(SetKey(api, schema, "example", r.ex), v, "requestBodyLuaExample",
             strip(tolua(r.ex, <<"-", "-", " ">>, <<"\n">>)))

\* lines 267-269
ExampleOf(v, schema, api) ==
    IF api.st # "ok" THEN api
    ELSE Exemplified(v, schema, api,
             IF Has(api.n[schema], "example")
             THEN ExOk(api.n[schema]["example"])
             ELSE property_to_example(schema, api))

\* lines 263-266
ExpandProperties(properties, a1) ==
    \* for prop_id in a list gives the list's elements, which are no
    \* index of a list
    IF properties.form = "list" /\ properties.nodes # <<>>
    THEN Fail(a1, "TypeError")
    ELSE expand_each(properties.nodes, 1, a1, 1)

\* lines 259-266, a1 the document expand_ref left
ExpandContent(body, a1) ==
    IF a1.st # "ok" THEN a1
    ELSE IF ~Has(a1.n[body], "content") THEN Fail(a1, "KeyError")
    ELSE IF \A i \in 1..Len(a1.n[body]["content"]) :
                a1.n[body]["content"][i].media # JSON
    THEN Fail(a1, "exit1")
    ELSE ExpandProperties(
             Get(a1.n[JsonSchema(a1.n[body]["content"])], "properties"), a1)

\* lines 258-266: the request body resolved and the properties of its
\* JSON schema expanded
ExpandedBody(v, api) ==
    ExpandContent(api.n[v]["requestBody"], expand_ref(api.n[v]["requestBody"], api))

\* lines 267-269, a1 the document the expansion left
ExampleAfter(v, a1) ==
    IF a1.st # "ok" THEN a1
    ELSE ExampleOf(v, JsonSchema(a1.n[a1.n[v]["requestBody"]]["content"]), a1)

\* lines 257-269, one operation
RequestBodyOf(v, api) ==
    IF ~Has(api.n[v], "requestBody") THEN api
    ELSE ExampleAfter(v, ExpandedBody(v, api))

\* --------------------------------------------------------------- documents
Schemas == <<"s", "c", "h", "e", "m", "a", "s">>
Parameters == <<"p", "a", "r", "a", "m", "e", "t", "e", "r", "s">>
Responses == <<"r", "e", "s", "p", "o", "n", "s", "e", "s">>
RequestBodies == <<"r", "e", "q", "u", "e", "s", "t", "B", "o", "d", "i", "e", "s">>

Pointer(cat, name) == PREFIX \o cat \o <<"/">> \o name

NameA == <<"A">>
NameB == <<"B", "-", "c">>
NameMissing == <<"Z">>

With(t, k, x) == [t EXCEPT !.d = Put(@, k, x)]
TRef(cat, name) == Term({<<"$ref", Pointer(cat, name)>>}, <<>>)
TPrim(type) == Term({<<"type", type>>}, <<>>)
TStr(description) == With(TPrim("string"), "description", description)
TObj(ids, kids) == Term({<<"type", "object">>}, <<Group("properties", ids, kids)>>)
TArr(kid) == Term({<<"type", "array">>}, <<Group("items", <<>>, <<kid>>)>>)
TOneOf(kids) == Term({}, <<Group("oneOf", <<>>, kids)>>)
TAllOf(kids) == Term({}, <<Group("allOf", <<>>, kids)>>)

\* The pieces descriptions are made of: text, white space, a line break,
\* <br>, a tag.
Pieces == {<<"x">>, <<" ">>, <<"\n">>, BR, <<"<", "b", ">">>}

RECURSIVE Descriptions(_)
Descriptions(k) ==
    IF k = 0 THEN {<<>>}
    ELSE Descriptions(k - 1) \cup {d \o p : d \in Descriptions(k - 1), p \in Pieces}

Multiline == <<"x", "\n", "x">>
Authored == ExStr(<<"e">>)

\* The shapes a schema is written in, around one leaf.
Shapes(leaf) ==
    {leaf,
     TObj(<<<<"a">>>>, <<leaf>>),
     TObj(<<<<"a">>, <<"b">>, <<"c">>>>, <<leaf, TPrim("integer"), leaf>>),
     TObj(<<<<"a">>>>, <<TObj(<<<<"b">>, <<"c">>>>, <<TPrim("boolean"), leaf>>)>>),
     TObj(<<>>, <<>>),
     TArr(leaf),
     TOneOf(<<leaf, TPrim("integer")>>),
     TAllOf(<<leaf>>)}

InlineLeaves ==
    {TStr(d) : d \in Descriptions(MaxDescPieces)}
      \cup {TPrim(t) : t \in PRIMITIVE_TYPES \cup {"bogus"}}
      \cup {With(TPrim(t), "example", Authored) : t \in PRIMITIVE_TYPES}
      \cup {Term({}, <<>>)}

RefLeaves ==
    {TRef(Schemas, NameA), TRef(Schemas, NameB), TRef(Schemas, NameMissing),
     Term({<<"$ref", <<"x">>>>}, <<>>)}

InlineSchemas ==
    UNION {Shapes(leaf) : leaf \in InlineLeaves}
      \cup {With(t, "example", Authored) : t \in Shapes(TPrim("integer"))}

RefSchemas == UNION {Shapes(leaf) : leaf \in RefLeaves}

\* The bodies of the components schemas/A and schemas/B-c: A refers to
\* itself or to B-c, B-c back to A, in some of them.
BodiesA ==
    {TStr(Multiline),
     TRef(Schemas, NameB),
     TRef(Schemas, NameA),
     TObj(<<<<"p">>>>, <<TRef(Schemas, NameA)>>),
     TObj(<<<<"p">>, <<"q">>>>, <<TStr(Multiline), TRef(Schemas, NameB)>>),
     TArr(TRef(Schemas, NameA)),
     TArr(TRef(Schemas, NameB)),
     TOneOf(<<TRef(Schemas, NameA)>>),
     TOneOf(<<TStr(Multiline), TRef(Schemas, NameB)>>)}

BodiesB ==
    {TPrim("integer"), TObj(<<<<"r">>>>, <<TRef(Schemas, NameA)>>)}

SchemaComponents(a, b) ==
    <<[cat |-> Schemas, name |-> NameA, body |-> a],
      [cat |-> Schemas, name |-> NameB, body |-> b]>>

SecuritySchemes ==
    [s \in {"XsollaLoginUserJWT", "basicAuth", "AuthForCart", "basicMerchantAuth"}
        |-> Multiline]

Document(components, paths, roots) ==
    [components |-> components, sec |-> SecuritySchemes, paths |-> paths,
     roots |-> roots]

\* the documents of the function-level harness: schemas to call the
\* functions on
UnitDocuments ==
    {Document(SchemaComponents(TStr(Multiline), TPrim("integer")), <<>>, <<r>>) :
        r \in InlineSchemas}
      \cup {Document(SchemaComponents(a, b), <<>>, <<r>>) :
               a \in BodiesA, b \in BodiesB, r \in RefSchemas}
      \cup {Document(SchemaComponents(a, b), <<>>, <<r, r>>) :
               a \in BodiesA, b \in BodiesB,
               r \in {TRef(Schemas, NameA), TObj(<<<<"a">>>>, <<TRef(Schemas, NameA)>>)}}

\* operations
Operation(pairs, parameters, codes, responses, bodies) ==
    Term(pairs \cup {<<"description", Multiline>>, <<"operationId", <<"o", "-", "p">>>>},
         <<Group("parameters", <<>>, parameters), Group("responses", codes, responses)>>
           \o (IF bodies = <<>> THEN <<>> ELSE <<Group("requestBody", <<>>, bodies)>>))

Content(media, schema) == Term({}, <<Group("content", <<media>>, <<schema>>)>>)
Parameter(in, name, schema) ==
    Term({<<"in", in>>, <<"name", name>>}, <<Group("schema", <<>>, <<schema>>)>>)

OK200 == <<"2", "0", "0">>
Plain == Content(JSON, TPrim("string"))

OnePath(operation) ==
    <<[path |-> <<"/", "a">>, methods |-> <<[method |-> <<"g", "e", "t">>, data |-> operation]>>]>>

Marks ==
    {{}, {<<"x-admin", TRUE>>}, {<<"x-server", TRUE>>}, {<<"x-admin", FALSE>>},
     {<<"x-admin", FALSE>>, <<"x-server", TRUE>>}}

MarkedPaths(m1, m2, m3) ==
    <<[path |-> <<"/", "a">>,
       methods |-> <<[method |-> <<"g", "e", "t">>,
                      data |-> Operation(m1, <<>>, <<OK200>>, <<Plain>>, <<>>)],
                     [method |-> <<"p", "o", "s", "t">>,
                      data |-> Operation(m2, <<>>, <<OK200>>, <<Plain>>, <<>>)]>>],
      [path |-> <<"/", "b">>,
       methods |-> <<[method |-> <<"g", "e", "t">>,
                      data |-> Operation(m3, <<>>, <<OK200>>, <<Plain>>, <<>>)]>>]>>

Requirement(names) == [s \in names |-> <<>>]

Securities ==
    {<<>>,
     <<Requirement({"XsollaLoginUserJWT"})>>,
     <<Requirement({"basicAuth"}), Requirement({"AuthForCart"})>>,
     <<Requirement({"basicMerchantAuth", "basicAuth"})>>,
     <<Requirement({"apiKey"})>>,
     <<Requirement({"basicAuth"}), Requirement({"apiKey"})>>,
     <<Requirement({})>>}

LeafSchemas ==
    {TPrim("string"), TPrim("bogus"), Term({}, <<>>), TRef(Schemas, NameA),
     TRef(Schemas, NameMissing), TArr(TRef(Schemas, NameB))}

NameP == <<"P">>
NameR == <<"R">>
NameRB == <<"R", "B">>

ParameterTerms ==
    {Parameter(in, <<"a", "-", "b", "[", "]">>, schema) :
        in \in {"path", "query"}, schema \in LeafSchemas}
      \cup {TRef(Parameters, NameP), TRef(Parameters, NameMissing),
            Term({<<"name", <<"a">>>>}, <<>>)}

ResponseTerms ==
    {Content(JSON, schema) : schema \in LeafSchemas}
      \cup {TRef(Responses, NameR), TRef(Responses, NameMissing)}

BodySchemas ==
    RefSchemas \cup Shapes(TStr(Multiline)) \cup Shapes(TPrim("bogus"))
      \cup {With(t, "example", Authored) :
               t \in Shapes(TRef(Schemas, NameA)) \cup Shapes(TPrim("bogus"))}

BodyTerms(schema) ==
    {Content(JSON, schema), Content("application/xml", schema),
     TRef(RequestBodies, NameRB), TRef(RequestBodies, NameMissing), Term({}, <<>>)}

Components(a, b, schema) ==
    SchemaComponents(a, b)
      \o <<[cat |-> Parameters, name |-> NameP,
            body |-> Parameter("path", <<"p", "-", "q">>, schema)],
           [cat |-> Responses, name |-> NameR, body |-> Content(JSON, schema)],
           [cat |-> RequestBodies, name |-> NameRB, body |-> Content(JSON, schema)]>>

Plainly == Components(TStr(Multiline), TPrim("integer"), TPrim("string"))

BodyDocuments(a, b, schema) ==
    {Document(Components(a, b, schema),
         OnePath(Operation({}, <<>>, <<OK200>>, <<Plain>>, <<body>>)), <<>>) :
        body \in {Content(JSON, schema), TRef(RequestBodies, NameRB)}}

\* two operations with request bodies
TwoBodies(b1, b2) ==
    <<[path |-> <<"/", "a">>,
       methods |-> <<[method |-> <<"g", "e", "t">>,
                      data |-> Operation({}, <<>>, <<OK200>>, <<Plain>>, <<b1>>)],
                     [method |-> <<"p", "o", "s", "t">>,
                      data |-> Operation({}, <<>>, <<OK200>>, <<Plain>>, <<b2>>)]>>]>>

\* request bodies that reach schemas/A through the property id, or
\* through the component requestBodies/RB
SharingBodies(id) ==
    {Content(JSON, TObj(<<id>>, <<TRef(Schemas, NameA)>>)),
     TRef(RequestBodies, NameRB)}

\* the documents process_paths runs on
PathDocuments ==
    {Document(Plainly, MarkedPaths(m1, m2, m3), <<>>) : m1 \in Marks, m2 \in Marks, m3 \in Marks}
      \cup {Document(Plainly,
                OnePath(Operation({<<"security", sec>>}, <<>>, <<OK200>>, <<Plain>>, <<>>)),
                <<>>) : sec \in Securities}
      \cup {Document(Components(TStr(Multiline), TPrim("integer"), schema),
                OnePath(Operation({}, <<p>>, <<OK200>>, <<r>>, <<>>)), <<>>) :
               schema \in LeafSchemas, p \in ParameterTerms, r \in ResponseTerms}
      \cup UNION {BodyDocuments(a, b, schema) :
                     a \in BodiesA, b \in BodiesB, schema \in BodySchemas}
      \cup {Document(Components(a, b, TObj(<<<<"s">>>>, <<TRef(Schemas, NameA)>>)),
                TwoBodies(b1, b2), <<>>) :
               a \in BodiesA, b \in BodiesB,
               b1 \in SharingBodies(<<"p">>), b2 \in SharingBodies(<<"q">>)}
      \cup {Document(Components(TStr(Multiline), TPrim("integer"), TPrim("string")),
                OnePath(Operation({}, <<>>, <<OK200>>, <<Plain>>, <<body>>)), <<>>) :
               body \in BodyTerms(TPrim("string"))}

\* ------------------------------------------------------------------- state
\* api: the document, as the functions share it (n, comps, sec, st, and
\*      paths: api["paths"] once process_paths has made it a list)
\* paths: api["paths"] as loaded, the local paths of process_paths
\* pc, idx: the loop process_paths is in and the operation it is at; in the
\*      harness, pc = "unit" and idx counts the calls made
\* doc: the document as load_api returned it
\* last: the harness's last call: the function, its argument, api before
\*      the call and what property_to_example returned
VARIABLES api, paths, pc, idx, doc, last

vars == <<api, paths, pc, idx, doc, last>>

NoCall == [fn |-> "", arg |-> 0, pre |-> <<>>, res |-> ExFail("")]

InitPaths ==
    \E document \in PathDocuments :
        LET l == load_api(document)
        IN  /\ api = l.api
            /\ paths = l.paths
            /\ doc = l
            /\ pc = "flatten"
            /\ idx = 0
            /\ last = NoCall

InitUnit ==
    \E document \in UnitDocuments :
        LET l == load_api(document)
        IN  /\ api = l.api
            /\ paths = l.paths
            /\ doc = l
            /\ pc = "unit"
            /\ idx = 0
            /\ last = NoCall

Init == InitPaths \/ InitUnit

Loops == <<"security", "responses", "parameters", "bodies", "render">>

\* where process_paths is after the step of loop k on the i-th operation
\* left the document as a
Goto(a, k, i) ==
    IF a.st # "ok" THEN [pc |-> "halted", idx |-> i]
    ELSE IF a.paths = <<>> THEN [pc |-> "render", idx |-> 0]
    ELSE IF i < Len(a.paths) THEN [pc |-> Loops[k], idx |-> i + 1]
    ELSE [pc |-> Loops[k + 1], idx |-> IF k = 4 THEN 0 ELSE 1]

Step(a, k, i) ==
    /\ api' = a
    /\ pc' = Goto(a, k, i).pc
    /\ idx' = Goto(a, k, i).idx
    /\ UNCHANGED <<paths, doc, last>>

\* lines 199-211
Flatten ==
    /\ pc = "flatten"
    /\ Step(FlattenPaths(paths, 1, [api EXCEPT !.paths = <<>>]), 1, 0)

\* lines 214-234, one operation
Security ==
    /\ pc = "security"
    /\ Step(SecurityOf(api.paths[idx], api), 1, idx)

\* lines 237-244, one operation
ConvertResponse ==
    /\ pc = "responses"
    /\ Step(ResponsesOf(api.paths[idx], api), 2, idx)

\* lines 247-253, one operation
ExpandParams ==
    /\ pc = "parameters"
    /\ Step(ParametersOf(api.paths[idx], api), 3, idx)

\* lines 256-269, one operation
RequestBody ==
    /\ pc = "bodies"
    /\ Step(RequestBodyOf(api.paths[idx], api), 4, idx)

\* line 278: the document goes to the renderer
Render ==
    /\ pc = "render"
    /\ pc' = "rendered"
    /\ UNCHANGED <<api, paths, idx, doc, last>>

\* The harness: a function of the script called on a schema of the
\* document, as long as no call has raised.
Roots == {doc.roots[i] : i \in 1..Len(doc.roots)}

Called(fn, v, a, res) ==
    /\ pc = "unit"
    /\ api.st = "ok"
    /\ idx < MaxCalls
    /\ api' = a
    /\ idx' = idx + 1
    /\ last' = [fn |-> fn, arg |-> v, pre |-> api, res |-> res]
    /\ UNCHANGED <<paths, pc, doc>>

CallExpandRef ==
    \E v \in Roots : Called("expand_ref", v, expand_ref(v, api), ExFail(""))

CallExpand ==
    \E v \in Roots : Called("expand", v, expand(v, api), ExFail(""))

CallExample ==
    \E v \in Roots :
        LET r == property_to_example(v, api)
        IN  Called("property_to_example", v,
                   IF r.st = "ok" THEN api ELSE Fail(api, r.st), r)

Next ==
    \/ Flatten
    \/ Security
    \/ ConvertResponse
    \/ ExpandParams
    \/ RequestBody
    \/ Render
    \/ CallExpandRef
    \/ CallExpand
    \/ CallExample

Spec == Init /\ [][Next]_vars

TypeOK ==
    /\ pc \in {"flatten", "security", "responses", "parameters", "bodies",
                "render", "rendered", "halted", "unit"}
    /\ idx \in 0..(Len(api.n) + MaxCalls)

\* ------------------------------------------------------- reading the heap
Range(s) == {s[i] : i \in 1..Len(s)}

\* the nodes a node holds
Kids(d) ==
    ({Get(d, "items"), Get(d, "schema"), Get(d, "requestBody")} \ {0})
      \cup Range(Get(d, "oneOf")) \cup Range(Get(d, "allOf"))
      \cup Range(Get(d, "parameters"))
      \cup Range(Get(d, "properties").nodes) \cup Range(Get(d, "responses").nodes)
      \cup {Get(d, "content")[i].schema : i \in 1..Len(Get(d, "content"))}

\* the nodes of the heap n that the nodes of frontier reach, with seen
RECURSIVE Reach(_, _, _)
Reach(frontier, seen, n) ==
    IF frontier \subseteq seen THEN seen
    ELSE Reach(UNION {Kids(n[v]) : v \in frontier \ seen}, seen \cup frontier, n)

\* the component the pointer of node v names in the document a (0: none)
RefTarget(v, a) ==
    IF Has(a.n[v], "$ref") /\ ComponentAddr(a.n[v]["$ref"], a) > 0
    THEN ComponentAddr(a.n[v]["$ref"], a)
    ELSE 0

RECURSIVE Closure(_, _, _)
Closure(frontier, seen, edges) ==
    IF frontier \subseteq seen THEN seen
    ELSE Closure(UNION {edges[c] : c \in frontier \ seen}, seen \cup frontier, edges)

\* ---------------------------------------------------------------- C7
\* the operations of the loaded document, in declaration order
RECURSIVE DeclaredFrom(_, _)
DeclaredFrom(ps, i) ==
    IF i > Len(ps) THEN <<>>
    ELSE [j \in 1..Len(ps[i].methods) |-> ps[i].methods[j].data] \o DeclaredFrom(ps, i + 1)

Declared == DeclaredFrom(doc.paths, 1)
Marked(v) ==
    Get(doc.api.n[v], "x-admin") = TRUE \/ Get(doc.api.n[v], "x-server") = TRUE
Unmarked(v) == ~Marked(v)
FlattenDone == pc \notin {"flatten", "unit"} /\ ~(pc = "halted" /\ idx = 0)

\* C7: once process_paths has flattened the paths, no operation marked
\* x-admin or x-server (true) is in api["paths"], and the operations not so
\* marked are in it exactly once each, in declaration order.
C7_OperationsFiltered ==
    FlattenDone =>
        /\ \A i \in 1..Len(Declared) :
               Marked(Declared[i]) => Declared[i] \notin Range(api.paths)
        /\ api.paths = SelectSeq(Declared, Unmarked)

\* a rendered document whose second operation of three was filtered out
C7_FilteredBetweenKept ==
    /\ pc = "rendered"
    /\ Len(Declared) = 3
    /\ Marked(Declared[2])
    /\ api.paths = <<Declared[1], Declared[3]>>

\* ---------------------------------------------------------------- C8
\* the last call resolved a node that had a pointer
ResolveCall == last.fn = "expand_ref" /\ Has(last.pre.n[last.arg], "$ref")
Referenced == RefTarget(last.arg, last.pre)

\* C8 as stated: after expand_ref returns, the node has no pointer, every
\* field of the referenced component is on the node with the component's
\* value, and resolving the node again changes nothing.
C8_EveryFieldCopied ==
    (ResolveCall /\ api.st = "ok") =>
        /\ ~Has(api.n[last.arg], "$ref")
        /\ \A k \in DOMAIN api.n[Referenced] :
               Has(api.n[last.arg], k) /\ api.n[last.arg][k] = api.n[Referenced][k]
        /\ expand_ref(last.arg, api) = api

\* C8, amended: after expand_ref returns, the node has no pointer, every
\* field of the referenced component other than its own pointer is on the
\* node with the component's value (the id lookup_component gave the
\* component included), and resolving the node again changes nothing.
C8_FieldsButPointerCopied ==
    (ResolveCall /\ api.st = "ok") =>
        /\ ~Has(api.n[last.arg], "$ref")
        /\ \A k \in DOMAIN api.n[Referenced] \ {"$ref"} :
               Has(api.n[last.arg], k) /\ api.n[last.arg][k] = api.n[Referenced][k]
        /\ Has(api.n[Referenced], "id")
        /\ expand_ref(last.arg, api) = api

\* expand_ref has resolved a pointer to a component that is a pointer
C8_ResolvedToPointer ==
    /\ ResolveCall
    /\ api.st = "ok"
    /\ Has(api.n[Referenced], "$ref")

\* ---------------------------------------------------------------- C9
CompAddrs == {c.addr : c \in doc.api.comps}

\* the components the schema of component c points to: from the nodes
\* below its root, and from any of its nodes
ChildEdges ==
    [c \in CompAddrs |->
        {RefTarget(v, doc.api) : v \in Reach(Kids(doc.api.n[c]), {}, doc.api.n)} \ {0}]
AllEdges ==
    [c \in CompAddrs |-> ChildEdges[c] \cup ({RefTarget(c, doc.api)} \ {0})]

CyclesThroughChildren(c) == c \in Closure(ChildEdges[c], {}, ChildEdges)
SelfReferencing(c) == c \in Closure(AllEdges[c], {}, AllEdges)
Acyclic == \A c \in CompAddrs : ~SelfReferencing(c)

\* the last call expanded a node pointing to a component
ExpandCall == last.fn = "expand" /\ RefTarget(last.arg, last.pre) > 0
Expanded == RefTarget(last.arg, last.pre)

\* C9 as stated: expanding a node whose component references itself,
\* directly or transitively, ends in unbounded recursion; nothing recurses
\* without bound on a document whose references are acyclic.
C9_SelfReferenceRecurses ==
    /\ (ExpandCall /\ SelfReferencing(Expanded)) => api.st = "RecursionError"
    /\ Acyclic => api.st # "RecursionError"

\* C9, amended: expanding a node whose component reaches itself through
\* pointers held below its root (a property, an item schema, a variant)
\* ends in unbounded recursion; expanding a node whose component is itself
\* a pointer (to itself or to another component) does not recurse: the
\* pointer is copied and deleted, the node has no type and expand raises
\* KeyError; expand_ref alone never recurses; nothing recurses without
\* bound on a document whose references are acyclic.
C9_RecursesThroughChildren ==
    /\ (ExpandCall /\ CyclesThroughChildren(Expanded)) => api.st = "RecursionError"
    /\ (ExpandCall /\ Has(last.pre.n[Expanded], "$ref")) => api.st = "KeyError"
    /\ last.fn = "expand_ref" => api.st # "RecursionError"
    /\ Acyclic => api.st # "RecursionError"

\* expand has returned from a node whose component points to itself
C9_DirectSelfReference ==
    /\ ExpandCall
    /\ RefTarget(Expanded, last.pre) = Expanded
    /\ api.st = "KeyError"

\* ---------------------------------------------------------------- C1
\* process_paths has returned
Completed == pc \in {"render", "rendered"}
\* the nodes the renderer gets: the operations and all they hold
RenderContext == Reach(Range(api.paths), {}, api.n)

\* C1: once process_paths has returned, no node of the render-context (an
\* operation, its parameters and their schemas, its responses and their
\* content schemas, its request body and the schemas below it) has a
\* pointer field.
C1_NoPointerLeft ==
    Completed => \A v \in RenderContext : ~Has(api.n[v], "$ref")

\* ---------------------------------------------------------------- C2
\* C2: expanding a node that expand has already expanded changes nothing,
\* on the node or on anything else of the document.
C2_ExpandIdempotent ==
    (last.fn = "expand" /\ api.st = "ok") => expand(last.arg, api) = api

\* ---------------------------------------------------------------- C3
Kinds == PRIMITIVE_TYPES \cup {"object", "array", "oneof", "allof"}

\* node v of the document a and all below it are resolved and classified
IsExpanded(v, a) ==
    \A u \in Reach({v}, {}, a.n) :
        /\ ~Has(a.n[u], "$ref")
        /\ Get(a.n[u], "type") \in Kinds
        /\ Get(a.n[u], "properties").form # "dict"

\* C3: property_to_example on an expanded schema with an author-supplied
\* example returns that example, whatever the kind of the schema.
C3_AuthoredExampleReturned ==
    (/\ last.fn = "property_to_example"
     /\ IsExpanded(last.arg, api)
     /\ Has(api.n[last.arg], "example"))
        => last.res = ExOk(api.n[last.arg]["example"])

\* ---------------------------------------------------------------- C4
\* the last call expanded an object schema with a mapping of properties
ObjectCall ==
    /\ last.fn = "expand"
    /\ api.st = "ok"
    /\ ~Has(last.pre.n[last.arg], "$ref")
    /\ Get(last.pre.n[last.arg], "type") = "object"
    /\ Get(last.pre.n[last.arg], "properties").form = "dict"
DeclaredIds == last.pre.n[last.arg]["properties"].ids

\* C4: after expand on an object schema whose properties are declared in
\* some order, the properties are a list of nodes carrying the declared
\* ids in that order, and the example of the schema has these ids as its
\* keys, one per declared property and in that order.
C4_DeclarationOrder ==
    ObjectCall =>
        LET props == Get(api.n[last.arg], "properties")
            example == property_to_example(last.arg, api)
        IN  /\ props.form = "list"
            /\ Len(props.nodes) = Len(DeclaredIds)
            /\ \A i \in 1..Len(DeclaredIds) :
                   Get(api.n[props.nodes[i]], "id") = DeclaredIds[i]
            /\ example.st = "ok" => example.ex.keys = DeclaredIds

\* ---------------------------------------------------------------- C5
\* the nodes property_to_example reads the type of, from node v on
RECURSIVE Visits(_, _, _)
RECURSIVE VisitsEach(_, _, _, _)
Visits(v, n, seen) ==
    IF v \in seen THEN seen
    ELSE CASE Get(n[v], "type") = "oneof" /\ Get(n[v], "oneOf") # <<>> ->
                Visits(Get(n[v], "oneOf")[1], n, seen \cup {v})
           [] Get(n[v], "type") = "array" /\ Has(n[v], "items") ->
                Visits(Get(n[v], "items"), n, seen \cup {v})
           [] Get(n[v], "type") = "object" ->
                VisitsEach(Get(n[v], "properties").nodes, 1, n, seen \cup {v})
           [] OTHER -> seen \cup {v}
VisitsEach(nodes, i, n, seen) ==
    IF i > Len(nodes) THEN seen
    ELSE VisitsEach(nodes, i + 1, n, Visits(nodes[i], n, seen))

\* C5: when process_paths is about to synthesize the example of a request
\* body whose JSON schema has no author-supplied example, every node the
\* synthesis visits (the root, nested properties, item schemas, variants)
\* has no pointer and has a type of the classified kinds.
C5_BodyExpandedBeforeExample ==
    (pc = "bodies" /\ Has(api.n[api.paths[idx]], "requestBody")) =>
        LET a1 == ExpandedBody(api.paths[idx], api)
            schema == JsonSchema(a1.n[a1.n[api.paths[idx]]["requestBody"]]["content"])
        IN  (a1.st = "ok" /\ ~Has(a1.n[schema], "example")) =>
                \A u \in Visits(schema, a1.n, {}) :
                    ~Has(a1.n[u], "$ref") /\ Get(a1.n[u], "type") \in Kinds

\* ---------------------------------------------------------------- C6
\* the nodes of the kept operations in the document as loaded, and the
\* schema nodes among them
LoadedNodes == Reach(Range(api.paths), {}, doc.api.n)
LoadedSchemas ==
    Reach(UNION {({Get(doc.api.n[v], "schema")} \ {0})
                    \cup {Get(doc.api.n[v], "content")[i].schema :
                             i \in 1..Len(Get(doc.api.n[v], "content"))} :
                 v \in LoadedNodes},
          {}, doc.api.n)

MissingComponent ==
    \E v \in LoadedNodes :
        Has(doc.api.n[v], "$ref") /\ ComponentAddr(doc.api.n[v]["$ref"], doc.api) = 0
Unclassifiable ==
    \E v \in LoadedSchemas :
        /\ ~Has(doc.api.n[v], "$ref")
        /\ ~Has(doc.api.n[v], "oneOf") /\ ~Has(doc.api.n[v], "allOf")
        /\ Get(doc.api.n[v], "type") \notin PRIMITIVE_TYPES \cup {"object", "array"}
UnknownScheme ==
    \E v \in Range(api.paths) :
        \E i \in 1..Len(Get(doc.api.n[v], "security")) :
            \E scheme \in DOMAIN Get(doc.api.n[v], "security")[i] :
                scheme \notin DOMAIN SecuritySchemes
NoJsonBody ==
    \E v \in Range(api.paths) :
        /\ Has(doc.api.n[v], "requestBody")
        /\ Has(doc.api.n[doc.api.n[v]["requestBody"]], "content")
        /\ \A i \in 1..Len(doc.api.n[doc.api.n[v]["requestBody"]]["content"]) :
               doc.api.n[doc.api.n[v]["requestBody"]]["content"][i].media # JSON

\* C6: process_paths does not return, and nothing is rendered, when a kept
\* operation of the loaded document has a pointer to a missing component,
\* a schema node (of a parameter, a response or a request body) with
\* neither a composite marker nor a recognized type, a security scheme
\* outside the recognized four, or a request body without JSON content.
C6_FailuresHalt ==
    Completed =>
        ~(MissingComponent \/ Unclassifiable \/ UnknownScheme \/ NoJsonBody)

\* ---------------------------------------------------------------- C10
\* the JSON schema of the request body of operation v, in the loaded document
LoadedBody(v) ==
    IF RefTarget(doc.api.n[v]["requestBody"], doc.api) > 0
    THEN RefTarget(doc.api.n[v]["requestBody"], doc.api)
    ELSE doc.api.n[v]["requestBody"]
LoadedBodySchema(v) == JsonSchema(doc.api.n[LoadedBody(v)]["content"])
\* the component the only property of that schema points to (0: none)
SharedThrough(v) ==
    IF  /\ Has(doc.api.n[v], "requestBody")
        /\ Has(doc.api.n[LoadedBody(v)], "content")
        /\ Len(Get(doc.api.n[LoadedBodySchema(v)], "properties").nodes) = 1
    THEN RefTarget(Get(doc.api.n[LoadedBodySchema(v)], "properties").nodes[1], doc.api)
    ELSE 0

\* C10: when two operations each have a request body property pointing to
\* the same component, process_paths gives both properties equal example
\* values, and every field the component and the nodes below it were
\* loaded with still has its loaded value.
C10_SharedComponentExamples ==
    (/\ Completed
     /\ Len(api.paths) = 2
     /\ SharedThrough(api.paths[1]) > 0
     /\ SharedThrough(api.paths[1]) = SharedThrough(api.paths[2])) =>
        /\ api.n[LoadedBodySchema(api.paths[1])]["example"].items
             = api.n[LoadedBodySchema(api.paths[2])]["example"].items
        /\ \A u \in Reach({SharedThrough(api.paths[1])}, {}, doc.api.n) :
               \A k \in DOMAIN doc.api.n[u] : Get(api.n[u], k) = doc.api.n[u][k]
====
